---- MODULE Spec2Model ----
(***************************************************************************)
(* Bio.Phylo._utils: the layout and drawing of phylogenetic trees.         *)
(*                                                                         *)
(* A tree is held with its clades numbered 1..n in preorder (the root is   *)
(* 1, a clade's children are numbered after it, left to right), so that    *)
(* the order of a clade's children and the traversal order of the          *)
(* terminals are both the order of the numbers.                            *)
(*                                                                         *)
(* An optional attribute (branch_length, color, width, confidence) is <<>> *)
(* for None and <<v>> for the value v.                                     *)
(*                                                                         *)
(* Real numbers: branch lengths are naturals, so depths are integers.      *)
(* The heights of draw are floats built from integers by halving; they     *)
(* are held as integers in units of 1/HScale, which holds them exactly.    *)
(***************************************************************************)
EXTENDS Integers, Sequences, FiniteSets, TLC

\* Bounds of the model.
MaxNodes == 6
MaxLenNodes == 4
MaxLen == 1
MaxAttrNodes == 3
MaxColumnWidth == 8

VARIABLES tree0, tree, pc, args, x_posns, y_posns, axes, raised, ascii, graph

vars == <<tree0, tree, pc, args, x_posns, y_posns, axes, raised, ascii, graph>>

\* None, and a present value.
None == <<>>
Some(v) == <<v>>

RECURSIVE Pow2(_)
Pow2(k) == IF k = 0 THEN 1 ELSE 2 * Pow2(k - 1)

\* One unit of height is HScale units of the model.
HScale == Pow2(MaxNodes + 1)

Max(S) == CHOOSE m \in S : \A x \in S : x <= m
Min(S) == CHOOSE m \in S : \A x \in S : m <= x

RECURSIVE SortedSeq(_)
SortedSeq(S) == IF S = {} THEN <<>> ELSE <<Min(S)>> \o SortedSeq(S \ {Min(S)})

Range(f) == {f[x] : x \in DOMAIN f}

(***************************************************************************)
(* The tree: Bio.Phylo.BaseTree (Tree, Clade), which this file only uses.  *)
(***************************************************************************)
Clades(t) == 1..t.n

\* tree.root
root(t) == 1

\* clade.clades: the children, in order.
clades(t, c) == SortedSeq({d \in Clades(t) : t.parent[d] = c})

\* clade.clades[0], clade.clades[-1]
first_child(t, c) == clades(t, c)[1]
last_child(t, c) == clades(t, c)[Len(clades(t, c))]

is_terminal(t, c) == clades(t, c) = <<>>

\* tree.get_terminals(): the terminals in traversal order.
get_terminals(t) == SortedSeq({c \in Clades(t) : is_terminal(t, c)})

\* tree.count_terminals()
count_terminals(t) == Len(get_terminals(t))

\* The path of a clade up to the root, the clade included.
RECURSIVE Path(_, _)
Path(t, c) == IF c = root(t) THEN {c} ELSE {c} \cup Path(t, t.parent[c])

\* The length of one branch as depths() counts it: branch_length or 0, or 1
\* per branch with unit_branch_lengths.
depth_of(t, c, unit_branch_lengths) ==
    IF unit_branch_lengths THEN 1
    ELSE IF t.branch_length[c] = None THEN 0 ELSE t.branch_length[c][1]

RECURSIVE SumDepth(_, _, _)
SumDepth(t, c, unit_branch_lengths) ==
    IF c = root(t) THEN 0
    ELSE SumDepth(t, t.parent[c], unit_branch_lengths)
         + depth_of(t, c, unit_branch_lengths)

\* tree.depths(): each clade's cumulative depth from the root.
depths(t, unit_branch_lengths) ==
    [c \in Clades(t) |-> SumDepth(t, c, unit_branch_lengths)]

\* The ordered trees of n clades, as parent maps in preorder numbering: clade
\* k + 1 hangs from a clade on the path of clade k.
RECURSIVE Topologies(_)
Topologies(n) ==
    IF n = 1 THEN {<<0>>}
    ELSE {Append(p, q) : p \in Topologies(n - 1), q \in 1..(n - 1)}

RECURSIVE PathOf(_, _)
PathOf(p, c) == IF p[c] = 0 THEN {c} ELSE {c} \cup PathOf(p, p[c])

IsPreorder(p) == \A k \in 2..Len(p) : p[k] \in PathOf(p, k - 1)

Shapes(n) == {p \in Topologies(n) : IsPreorder(p)}

Option(S) == {None} \cup {Some(v) : v \in S}

\* The root's branch leads nowhere: it has no length here.
Lengths(n) == {l \in [1..n -> Option(0..MaxLen)] : l[1] = None}

NoAttr(n) == [c \in 1..n |-> None]

\* The name of a terminal: clade k is named by the k-th letter, once or twice,
\* so that the labels differ in width. An internal clade has no name.
Letters == <<"A", "B", "C", "D", "E", "F", "G", "H", "I", "J">>
NameOf(c) == IF c % 2 = 1 THEN <<Letters[c]>> ELSE <<Letters[c], Letters[c]>>

\* A Tree of n clades.
MkTree(n, p, l, col, w) ==
    [n |-> n, parent |-> p, branch_length |-> l, color |-> col, width |-> w,
     confidence |-> [c \in 1..n |-> None], tree_name |-> None,
     name |-> [c \in 1..n |->
                 IF \E d \in 1..n : p[d] = c THEN None ELSE Some(NameOf(c))]]

\* str(clade): the clade's name, or the name of its class.
ClassName == <<"C", "l", "a", "d", "e">>
str(t, c) == IF t.name[c] = None THEN ClassName ELSE t.name[c][1]

\* What a call gives: raised is "" when it returned value, and the
\* exception's name when it raised.
Ok(v) == [raised |-> "", value |-> v]
Raise(e) == [raised |-> e, value |-> <<>>]

(***************************************************************************)
(* draw: the layout.                                                       *)
(***************************************************************************)
\* get_x_positions: the depths, by unit branch lengths when no depth is over 0.
get_x_positions_PerClade(t) ==
    [c \in Clades(t) |->
        IF depths(t, FALSE)[c] = 0 THEN depths(t, TRUE)[c]
        ELSE depths(t, FALSE)[c]]

get_x_positions_Always(t) == depths(t, TRUE)

get_x_positions(t) ==
    IF Max(Range(depths(t, FALSE))) = 0 THEN depths(t, TRUE)
    ELSE depths(t, FALSE)

\* The heights of the tips: maxheight - i over the reversed terminals.
tip_heights_Unreversed(t) ==
    LET taxa == get_terminals(t)
        maxheight == count_terminals(t)
    IN  [tip \in Range(taxa) |->
            LET i == (CHOOSE k \in 1..Len(taxa) : taxa[k] = tip) - 1
            IN  (maxheight - i) * HScale]

tip_heights(t) ==
    LET taxa == get_terminals(t)
        maxheight == count_terminals(t)
    IN  [tip \in Range(taxa) |->
            LET i == Len(taxa) - (CHOOSE k \in 1..Len(taxa) : taxa[k] = tip)
            IN  (maxheight - i) * HScale]

\* The midpoint of draw's calc_row: (a + b) / 2.0.
RECURSIVE SumOver(_, _)
SumOver(heights, kids) ==
    IF kids = <<>> THEN 0 ELSE heights[Head(kids)] + SumOver(heights, Tail(kids))

midpoint_Mean(t, clade, heights) ==
    SumOver(heights, clades(t, clade)) \div Len(clades(t, clade))

midpoint(t, clade, heights) ==
    (heights[first_child(t, clade)] + heights[last_child(t, clade)]) \div 2

\* calc_row of get_y_positions: the children that have no height yet first
\* (calc_rows), then the clade. It raises IndexError at a clade that has no
\* children.
RECURSIVE calc_row(_, _, _)
RECURSIVE calc_rows(_, _, _, _)
calc_rows(t, kids, k, res) ==
    IF k > Len(kids) \/ res.raised # "" THEN res
    ELSE IF kids[k] \in DOMAIN res.value THEN calc_rows(t, kids, k + 1, res)
    ELSE calc_rows(t, kids, k + 1, calc_row(t, kids[k], res.value))

calc_row(t, clade, heights) ==
    LET res == calc_rows(t, clades(t, clade), 1, Ok(heights))
    IN  IF res.raised # "" THEN res
        ELSE IF clades(t, clade) = <<>> THEN Raise("IndexError")
        ELSE Ok((clade :> midpoint(t, clade, res.value)) @@ res.value)

\* get_y_positions: calc_row from the root, when the root has children.
get_y_positions(t) ==
    IF clades(t, root(t)) # <<>> THEN calc_row(t, root(t), tip_heights(t))
    ELSE Ok(tip_heights(t))

(***************************************************************************)
(* draw_ascii.                                                             *)
(***************************************************************************)
\* int(math.ceil(math.log(n, 2))), n >= 1: the least k with 2^k >= n.
RECURSIVE CeilLog2From(_, _)
CeilLog2From(n, k) == IF Pow2(k) >= n THEN k ELSE CeilLog2From(n, k + 1)
CeilLog2(n) == CeilLog2From(n, 0)

\* int(a / b) for b > 0: the quotient, cut towards zero.
IntDiv(a, b) == IF a >= 0 THEN a \div b ELSE 0 - ((0 - a) \div b)

\* The depths get_col_positions scales: by unit branch lengths when no depth
\* is over 0.
col_depths(t) ==
    IF Max(Range(depths(t, FALSE))) = 0 THEN depths(t, TRUE)
    ELSE depths(t, FALSE)

\* get_col_positions: int(blen * cols_per_branch_unit + 1.0), where
\* cols_per_branch_unit = (drawing_width - fudge_margin) / float(max depth).
get_col_positions(t, taxa, drawing_width) ==
    LET d == col_depths(t)
        fudge_margin == CeilLog2(Len(taxa))
        maxd == Max(Range(d))
    IN  IF maxd = 0 THEN Raise("ZeroDivisionError")
        ELSE Ok([clade \in Clades(t) |->
                    IntDiv(d[clade] * (drawing_width - fudge_margin) + maxd, maxd)])

\* The rows of the taxa: 2 * idx.
taxa_rows(taxa) ==
    [taxon \in Range(taxa) |->
        2 * ((CHOOSE k \in 1..Len(taxa) : taxa[k] = taxon) - 1)]

\* The midpoint of draw_ascii's calc_row: (a + b) // 2.
ascii_midpoint_Ceil(t, clade, positions) ==
    (positions[first_child(t, clade)] + positions[last_child(t, clade)] + 1) \div 2

ascii_midpoint(t, clade, positions) ==
    (positions[first_child(t, clade)] + positions[last_child(t, clade)]) \div 2

\* calc_row of get_row_positions: as in draw, with the midpoint cut to an
\* integer (//).
RECURSIVE ascii_calc_row(_, _, _)
RECURSIVE ascii_calc_rows(_, _, _, _)
ascii_calc_rows(t, kids, k, res) ==
    IF k > Len(kids) \/ res.raised # "" THEN res
    ELSE IF kids[k] \in DOMAIN res.value THEN ascii_calc_rows(t, kids, k + 1, res)
    ELSE ascii_calc_rows(t, kids, k + 1, ascii_calc_row(t, kids[k], res.value))

ascii_calc_row(t, clade, positions) ==
    LET res == ascii_calc_rows(t, clades(t, clade), 1, Ok(positions))
    IN  IF res.raised # "" THEN res
        ELSE IF clades(t, clade) = <<>> THEN Raise("IndexError")
        ELSE Ok((clade :> ascii_midpoint(t, clade, res.value)) @@ res.value)

\* get_row_positions: calc_row from the root, whatever the root is.
get_row_positions(t, taxa) == ascii_calc_row(t, root(t), taxa_rows(taxa))

\* A Python list index: the place (from 1) that index i of a list of length
\* len names, a negative index counting from the end, and 0 for an index out
\* of range.
PyIndex(len, i) ==
    IF 0 <= i /\ i < len THEN i + 1
    ELSE IF 0 - len <= i /\ i < 0 THEN len + i + 1
    ELSE 0

\* char_matrix[row][col] = ch
SetCell(res, row, col, ch) ==
    IF res.raised # "" THEN res
    ELSE LET r == PyIndex(Len(res.value), row)
         IN  IF r = 0 THEN Raise("IndexError")
             ELSE LET c == PyIndex(Len(res.value[r]), col)
                  IN  IF c = 0 THEN Raise("IndexError")
                      ELSE Ok([res.value EXCEPT ![r][c] = ch])

\* for col in range(a, b): char_matrix[row][col] = ch
RECURSIVE SetRow(_, _, _, _, _)
SetRow(res, row, a, b, ch) ==
    IF a >= b \/ res.raised # "" THEN res
    ELSE SetRow(SetCell(res, row, a, ch), row, a + 1, b, ch)

\* for row in range(a, b): char_matrix[row][col] = ch
RECURSIVE SetCol(_, _, _, _, _)
SetCol(res, col, a, b, ch) ==
    IF a >= b \/ res.raised # "" THEN res
    ELSE SetCol(SetCell(res, a, col, ch), col, a + 1, b, ch)

\* The joint of a clade with its first child: "," when the child's branch is
\* shorter than 2 columns.
ascii_joint(t, col_positions, row_positions, clade, res) ==
    IF col_positions[first_child(t, clade)] - col_positions[clade] < 2
    THEN SetCell(res, row_positions[first_child(t, clade)],
                 col_positions[clade], ",")
    ELSE res

\* draw_clade of draw_ascii: the clade's horizontal line, the vertical line
\* over its children's rows, the joint, then its children (ascii_draw_clades).
RECURSIVE ascii_draw_clade(_, _, _, _, _, _)
RECURSIVE ascii_draw_clades(_, _, _, _, _, _, _)
ascii_draw_clades(t, col_positions, row_positions, kids, k, startcol, res) ==
    IF k > Len(kids) \/ res.raised # "" THEN res
    ELSE ascii_draw_clades(t, col_positions, row_positions, kids, k + 1, startcol,
            ascii_draw_clade(t, col_positions, row_positions, kids[k], startcol, res))

ascii_draw_clade(t, col_positions, row_positions, clade, startcol, res) ==
    LET thiscol == col_positions[clade]
        thisrow == row_positions[clade]
        line == SetRow(res, thisrow, startcol, thiscol, "_")
    IN  IF clades(t, clade) = <<>> THEN line
        ELSE LET toprow == row_positions[first_child(t, clade)]
                 botrow == row_positions[last_child(t, clade)]
                 bar == SetCol(line, thiscol, toprow + 1, botrow + 1, "|")
                 joint == ascii_joint(t, col_positions, row_positions, clade, bar)
             IN  ascii_draw_clades(t, col_positions, row_positions,
                                   clades(t, clade), 1, thiscol + 1, joint)

\* "".join(row).rstrip()
RECURSIVE rstrip(_)
rstrip(row) ==
    IF row = <<>> THEN row
    ELSE IF row[Len(row)] = " " THEN rstrip(SubSeq(row, 1, Len(row) - 1))
    ELSE row

ascii_lines_OddRows(t, taxa, char_matrix) ==
    [k \in 1..(Len(char_matrix) + 1) |->
        IF k > Len(char_matrix) THEN <<>>
        ELSE IF (k - 1) % 2 = 1
             THEN rstrip(char_matrix[k]) \o <<" ">> \o str(t, taxa[((k - 1) \div 2) + 1])
             ELSE rstrip(char_matrix[k])]

\* The lines written to the file: each row of the drawing, with the label of
\* its taxon on an even row, and an empty line.
ascii_lines(t, taxa, char_matrix) ==
    [k \in 1..(Len(char_matrix) + 1) |->
        IF k > Len(char_matrix) THEN <<>>
        ELSE IF (k - 1) % 2 = 0
             THEN rstrip(char_matrix[k]) \o <<" ">> \o str(t, taxa[((k - 1) \div 2) + 1])
             ELSE rstrip(char_matrix[k])]

\* [[" " for x in range(drawing_width)] for y in range(drawing_height)]
blank_matrix(drawing_width, drawing_height) ==
    [y \in 1..drawing_height |-> [x \in 1..drawing_width |-> " "]]

\* draw_ascii(tree, file, column_width): what it computed, the exception it
\* raised ("" for none), where it raised it, and the lines it wrote.
draw_ascii(t, column_width) ==
    LET taxa == get_terminals(t)
        max_label_width == Max({Len(str(t, taxa[k])) : k \in 1..Len(taxa)})
        drawing_width == column_width - max_label_width - 1
        drawing_height == 2 * Len(taxa) - 1
        cols == get_col_positions(t, taxa, drawing_width)
        rows == get_row_positions(t, taxa)
        drawn == ascii_draw_clade(t, cols.value, rows.value, root(t), 0,
                                  Ok(blank_matrix(drawing_width, drawing_height)))
        base == [called |-> TRUE, column_width |-> column_width,
                 drawing_width |-> drawing_width,
                 drawing_height |-> drawing_height,
                 depths |-> col_depths(t), col_positions |-> <<>>,
                 row_positions |-> <<>>, raised |-> "", at |-> "",
                 file |-> <<>>]
    IN  IF cols.raised # ""
        THEN [base EXCEPT !.raised = cols.raised, !.at = "get_col_positions"]
        ELSE IF rows.raised # ""
        THEN [base EXCEPT !.col_positions = cols.value,
                          !.raised = rows.raised, !.at = "get_row_positions"]
        ELSE IF drawn.raised # ""
        THEN [base EXCEPT !.col_positions = cols.value,
                          !.row_positions = rows.value,
                          !.raised = drawn.raised, !.at = "draw_clade"]
        ELSE [base EXCEPT !.col_positions = cols.value,
                          !.row_positions = rows.value,
                          !.file = ascii_lines(t, taxa, drawn.value)]

(***************************************************************************)
(* draw.                                                                   *)
(*                                                                         *)
(* A line width is <<m, k>>: m times rcParams["lines.linewidth"], less k.  *)
(* A text's place along the depth axis is <<"at", x>> for x, <<"mid", a,   *)
(* b>> for 0.5 * (a + b) and <<"aligned", m>> for m + m / 30. Each line    *)
(* and text also names the clade it was drawn for.                         *)
(***************************************************************************)
\* label_func(clade): str by default, or the function given.
label_func(a, t, clade) ==
    IF a.label_func.kind = "str" THEN Some(str(t, clade))
    ELSE a.label_func.labels[clade]

\* conf2str(clade.confidence)
conf2str(conf) == <<"conf", conf>>

\* format_branch_label(clade), as lines 304-334 choose it.
format_branch_label(a, t, clade) ==
    IF ~a.branch_labels.truthy
    THEN IF a.show_confidence /\ t.confidence[clade] # None
         THEN Some(conf2str(t.confidence[clade][1]))
         ELSE None
    ELSE a.branch_labels.labels[clade]

\* if conf_label: neither None nor an empty string.
Truthy(label) == label # None /\ label[1] # <<>>

\* get_label_color(label)
get_label_color(a, label) ==
    IF a.label_colors = None THEN "black" ELSE a.label_colors[1]

\* What draw has drawn so far: the texts on the axes, the two lists of line
\* collections, and the exception raised ("" for none).
NoDrawing == [raised |-> "", texts |-> <<>>,
              horizontal_linecollections |-> <<>>,
              vertical_linecollections |-> <<>>, plots |-> <<>>]

\* draw_clade_lines(use_linecollection=True, ...)
draw_clade_lines(st, orientation, clade, from, to, color, lw, linestyle) ==
    LET ln == [clade |-> clade, from |-> from, to |-> to, color |-> color,
               lw |-> lw, linestyle |-> linestyle]
    IN  IF st.raised # "" THEN st
        ELSE IF orientation = "horizontal"
        THEN [st EXCEPT !.horizontal_linecollections = Append(@, ln)]
        ELSE [st EXCEPT !.vertical_linecollections = Append(@, ln)]

\* axes.text(...)
axes_text(st, clade, kind, x, y, s, color) ==
    IF st.raised # "" THEN st
    ELSE [st EXCEPT !.texts = Append(@, [clade |-> clade, kind |-> kind,
                                         x |-> x, y |-> y, s |-> s,
                                         color |-> color])]

\* The colour and line width a clade is drawn with: its own, or else the
\* ones handed down.
\* color.to_hex(): "#%02x%02x%02x" of a colour <<red, green, blue>>.
HexDigits == <<"0", "1", "2", "3", "4", "5", "6", "7",
               "8", "9", "a", "b", "c", "d", "e", "f">>
Hex2(v) == <<HexDigits[(v \div 16) + 1], HexDigits[(v % 16) + 1]>>
to_hex(color) == <<"#">> \o Hex2(color[1]) \o Hex2(color[2]) \o Hex2(color[3])

clade_color_Own(t, clade, color) ==
    IF t.color[clade] # None THEN to_hex(t.color[clade][1]) ELSE <<"k">>

clade_color(t, clade, color) ==
    IF t.color[clade] # None THEN to_hex(t.color[clade][1]) ELSE color

clade_lw(t, clade, lw) ==
    IF t.width[clade] # None THEN <<t.width[clade][1], 0>> ELSE lw

At(v) == <<"at", v>>
Mid(a, b) == <<"mid", a, b>>

\* xplc: where a clade's label goes along the depth axis.
label_place(a, t, clade, x_here, xmax) ==
    IF a.align_labels /\ is_terminal(t, clade) THEN <<"aligned", xmax>>
    ELSE At(x_here)

\* lw - 1
Thinner(lw) == <<lw[1], lw[2] + 1>>

\* draw_clade, vertical orientation: the clade's own part (lines 455-512).
draw_clade_vertical(st, a, t, x, y, clade, x_start, color, lw) ==
    LET x_here == x[clade]
        y_here == y[clade]
        xmax == Max(Range(x))
        s1 == draw_clade_lines(st, "horizontal", clade, <<x_start, y_here>>,
                               <<x_here, y_here>>, color, lw, "solid")
        s2 == IF is_terminal(t, clade) /\ a.align_labels
              THEN draw_clade_lines(s1, "horizontal", clade, <<x_here, y_here>>,
                                    <<xmax, y_here>>, color, Thinner(lw), "-.")
              ELSE s1
        label == label_func(a, t, clade)
        s3 == IF label # None /\ label # Some(ClassName) /\ a.draw_labels
              THEN axes_text(s2, clade, "label",
                             label_place(a, t, clade, x_here, xmax), At(y_here),
                             <<" ">> \o label[1],
                             get_label_color(a, label[1]))
              ELSE s2
        conf_label == format_branch_label(a, t, clade)
    IN  IF a.draw_labels /\ Truthy(conf_label)
        THEN axes_text(s3, clade, "branch_label", Mid(x_start, x_here),
                       At(y_here), conf_label[1], "default")
        ELSE s3

\* draw_clade, horizontal orientation: the clade's own part (lines 531-589).
\* The branch label is placed by the height of clade.clades[-1].
draw_clade_horizontal(st, a, t, x, y, clade, x_start, color, lw) ==
    LET x_here == x[clade]
        y_here == y[clade]
        xmax == Max(Range(x))
        s1 == draw_clade_lines(st, "vertical", clade, <<y_here, x_start>>,
                               <<y_here, x_here>>, color, lw, "solid")
        s2 == IF is_terminal(t, clade) /\ a.align_labels
              THEN draw_clade_lines(s1, "vertical", clade, <<y_here, x_here>>,
                                    <<y_here, xmax>>, color, Thinner(lw), "-.")
              ELSE s1
        label == label_func(a, t, clade)
        s3 == IF label # None /\ label # Some(ClassName) /\ a.draw_labels
              THEN axes_text(s2, clade, "label", At(y_here),
                             label_place(a, t, clade, x_here, xmax),
                             <<" ">> \o label[1],
                             get_label_color(a, label[1]))
              ELSE s2
        conf_label == format_branch_label(a, t, clade)
    IN  IF a.draw_labels /\ Truthy(conf_label)
        THEN IF s3.raised # "" THEN s3
             ELSE IF is_terminal(t, clade) THEN [s3 EXCEPT !.raised = "IndexError"]
             ELSE axes_text(s3, clade, "branch_label",
                            Mid(y[last_child(t, clade)], y_here), At(x_here),
                            conf_label[1], "default")
        ELSE s3

\* The line that joins a clade's children (lines 513-526 and 590-603).
draw_clade_join(st, a, t, x, y, clade, color, lw) ==
    LET y_top == y[first_child(t, clade)]
        y_bot == y[last_child(t, clade)]
    IN  IF a.orient_tree = "vertical"
        THEN draw_clade_lines(st, "vertical", clade, <<x[clade], y_bot>>,
                              <<x[clade], y_top>>, color, lw, "solid")
        ELSE draw_clade_lines(st, "horizontal", clade, <<y_bot, x[clade]>>,
                              <<y_top, x[clade]>>, color, lw, "solid")

\* draw_clade(clade, x_start, color, lw): the clade, then its children
\* (draw_clades), which are handed the clade's colour and line width.
RECURSIVE draw_clade(_, _, _, _, _, _, _, _, _)
RECURSIVE draw_clades(_, _, _, _, _, _, _, _, _, _)
draw_clades(st, a, t, x, y, kids, k, x_start, color, lw) ==
    IF k > Len(kids) \/ st.raised # "" THEN st
    ELSE draw_clades(draw_clade(st, a, t, x, y, kids[k], x_start, color, lw),
                     a, t, x, y, kids, k + 1, x_start, color, lw)

draw_clade(st, a, t, x, y, clade, x_start, color0, lw0) ==
    LET color == clade_color(t, clade, color0)
        lw == clade_lw(t, clade, lw0)
        own == IF a.orient_tree = "vertical"
               THEN draw_clade_vertical(st, a, t, x, y, clade, x_start, color, lw)
               ELSE IF a.orient_tree = "horizontal"
               THEN draw_clade_horizontal(st, a, t, x, y, clade, x_start, color, lw)
               ELSE st
    IN  IF st.raised # "" THEN st
        ELSE IF is_terminal(t, clade) \/ a.orient_tree \notin {"horizontal", "vertical"}
        THEN own
        ELSE draw_clades(draw_clade_join(own, a, t, x, y, clade, color, lw),
                         a, t, x, y, clades(t, clade), 1, x[clade], color, lw)

\* draw_clade_polar(clade, color, lw, x_start, y_start): the branch, the
\* label, the arc over the children, then the children (draw_clades_polar).
\* It reads neither clade.color nor clade.width. An angle is <<"rad", h>> for
\* the height h times rad, and <<"loc", k>> for locs[k].
RECURSIVE draw_clade_polar(_, _, _, _, _, _, _, _, _, _)
RECURSIVE draw_clades_polar(_, _, _, _, _, _, _, _, _)
draw_clades_polar(st, a, t, x, y, kids, k, color, lw) ==
    IF k > Len(kids) \/ st.raised # "" THEN st
    ELSE LET y_start == IF is_terminal(t, kids[k]) THEN <<"rad", y[kids[k]]>>
                        ELSE <<"loc", k - 1>>
         IN  draw_clades_polar(
                 draw_clade_polar(st, a, t, x, y, kids[k], color, lw,
                                  x[t.parent[kids[k]]], y_start),
                 a, t, x, y, kids, k + 1, color, lw)

draw_clade_polar(st, a, t, x, y, clade, color, lw, x_start, y_start) ==
    LET xmax == Max(Range(x))
        x_here == x[clade]
        y_here == <<"rad", y[clade]>>
        branch == [clade |-> clade, kind |-> "branch", from |-> <<y_start, x_start>>,
                   to |-> <<y_here, x_here>>, color |-> color, lw |-> lw,
                   linestyle |-> "solid"]
        dashes == [clade |-> clade, kind |-> "align", from |-> <<y_start, x_here>>,
                   to |-> <<y_here, <<"aligned", xmax>>>>, color |-> color,
                   lw |-> Thinner(lw), linestyle |-> "-."]
        arc == [clade |-> clade, kind |-> "arc",
                from |-> <<<<"rad", y[last_child(t, clade)]>>, x_here>>,
                to |-> <<<<"rad", y[first_child(t, clade)]>>, x_here>>,
                color |-> color, lw |-> lw, linestyle |-> "solid"]
        s1 == [st EXCEPT !.plots = Append(@, branch)]
        s2 == IF is_terminal(t, clade) /\ a.align_labels
              THEN [s1 EXCEPT !.plots = Append(@, dashes)]
              ELSE s1
        s3 == IF t.name[clade] # None /\ t.name[clade] # Some(ClassName)
                 /\ a.draw_labels
              THEN axes_text(s2, clade, "label", y_here,
                             IF a.align_labels /\ is_terminal(t, clade)
                             THEN <<"aligned", xmax>> ELSE At(x_here),
                             label_func(a, t, clade), <<"k">>)
              ELSE s2
    IN  IF st.raised # "" THEN st
        ELSE IF is_terminal(t, clade) THEN s3
        ELSE draw_clades_polar([s3 EXCEPT !.plots = Append(@, arc)],
                               a, t, x, y, clades(t, clade), 1, color, lw)

\* The colour and the line width draw starts from: "k" and
\* rcParams["lines.linewidth"].
StartColor == <<"k">>
StartLw == <<1, 0>>

draw_tree_NoCollections(a, t, x, y) ==
    LET st == IF a.orient_tree \in {"horizontal", "vertical"}
              THEN draw_clade(NoDrawing, a, t, x, y, root(t), 0,
                              StartColor, StartLw)
              ELSE IF a.orient_tree = "circular"
              THEN draw_clade_polar(NoDrawing, a, t, x, y, root(t),
                                    StartColor, StartLw, 0, <<"rad", 0>>)
              ELSE NoDrawing
    IN  [raised |-> st.raised, texts |-> st.texts, plots |-> st.plots,
         collections |-> <<>>,
         labelled |-> st.raised = "" /\ a.orient_tree \in {"horizontal", "vertical"},
         limits |-> st.raised = ""
                    /\ a.orient_tree \in {"horizontal", "vertical", "circular"}]

\* Lines 704-750: the tree drawn on the axes. The line collections are added
\* to the axes after draw_clade has returned, the horizontal ones first.
draw_tree(a, t, x, y) ==
    LET st == IF a.orient_tree \in {"horizontal", "vertical"}
              THEN draw_clade(NoDrawing, a, t, x, y, root(t), 0,
                              StartColor, StartLw)
              ELSE IF a.orient_tree = "circular"
              THEN draw_clade_polar(NoDrawing, a, t, x, y, root(t),
                                    StartColor, StartLw, 0, <<"rad", 0>>)
              ELSE NoDrawing
    IN  [raised |-> st.raised,
         texts |-> st.texts,
         plots |-> st.plots,
         collections |->
            IF st.raised # "" THEN <<>>
            ELSE st.horizontal_linecollections \o st.vertical_linecollections,
         labelled |-> st.raised = "" /\ a.orient_tree \in {"horizontal", "vertical"},
         limits |-> st.raised = ""
                    /\ a.orient_tree \in {"horizontal", "vertical", "circular"}]

(***************************************************************************)
(* to_networkx.                                                            *)
(*                                                                         *)
(* A graph is its nodes and its edges, an edge being the pair of its nodes *)
(* as they were given to add_edge, with its attributes. The state of the   *)
(* walk is the graph and the tree, whose clades add_edge writes to.        *)
(***************************************************************************)
\* networkx.__version__, in the order of Python's strings; "" when networkx
\* cannot be imported.
Versions == <<"0.98", "0.99", "1.0">>
VersionAtLeast(v, w) ==
    (CHOOSE k \in DOMAIN Versions : Versions[k] = v)
        >= (CHOOSE k \in DOMAIN Versions : Versions[k] = w)

NoGraph == [built |-> FALSE, directed |-> FALSE, nodes |-> {}, edges |-> <<>>]

\* n2.branch_length or 1.0
edge_weight(t, n2) ==
    IF t.branch_length[n2] = None \/ t.branch_length[n2][1] = 0 THEN 1
    ELSE t.branch_length[n2][1]

\* graph.add_edge(n1, n2, ...)
graph_add_edge(g, n1, n2, attrs) ==
    [g EXCEPT !.nodes = @ \cup {n1, n2},
              !.edges = (<<n1, n2>> :> attrs) @@ @]

\* add_edge(graph, n1, n2), as the version of networkx chooses it: with the
\* weight, the colour and the width (1.0 and later), with the weight alone
\* (0.99), or bare. The first hands n1's colour and width down to an n2 that
\* has none, in the edge and in the clade n2 itself.
add_edge(st, version, n1, n2) ==
    LET t == st.tree
        weight == Some(edge_weight(t, n2))
        color == IF t.color[n2] # None THEN Some(to_hex(t.color[n2][1]))
                 ELSE IF t.color[n1] # None THEN Some(to_hex(t.color[n1][1]))
                 ELSE None
        width == IF t.width[n2] # None THEN t.width[n2]
                 ELSE IF t.width[n1] # None THEN t.width[n1]
                 ELSE None
    IN  IF VersionAtLeast(version, "1.0")
        THEN [graph |-> graph_add_edge(st.graph, n1, n2,
                            [weight |-> weight, color |-> color, width |-> width]),
              tree |-> [t EXCEPT
                          !.color[n2] = IF @ = None THEN t.color[n1] ELSE @,
                          !.width[n2] = IF @ = None THEN t.width[n1] ELSE @]]
        ELSE IF VersionAtLeast(version, "0.99")
        THEN [st EXCEPT !.graph = graph_add_edge(@, n1, n2,
                            [weight |-> weight, color |-> None, width |-> None])]
        ELSE [st EXCEPT !.graph = graph_add_edge(@, n1, n2,
                            [weight |-> None, color |-> None, width |-> None])]

\* build_subgraph(graph, top): each child of top is added as a node, joined
\* to top, and walked in its turn (build_children).
RECURSIVE build_subgraph(_, _, _)
RECURSIVE build_children(_, _, _, _, _)
build_children(st, version, top, kids, k) ==
    IF k > Len(kids) THEN st
    ELSE LET node == [st EXCEPT !.graph.nodes = @ \cup {kids[k]}]
             edge == add_edge(node, version, top, kids[k])
         IN  build_children(build_subgraph(edge, version, kids[k]),
                            version, top, kids, k + 1)

build_subgraph(st, version, top) ==
    build_children(st, version, top, clades(st.tree, top), 1)

\* to_networkx(tree): a DiGraph for a rooted tree and a Graph otherwise, with
\* the root as its first node.
to_networkx(t, rooted, version) ==
    build_subgraph([graph |-> [built |-> TRUE, directed |-> rooted,
                               nodes |-> {root(t)}, edges |-> <<>>],
                    tree |-> t],
                   version, root(t))

(***************************************************************************)
(* The calls. A behaviour is one call of draw, step by step, or one call   *)
(* of draw_ascii or of to_networkx, on one tree.                           *)
(***************************************************************************)
Colors == {<<255, 0, 0>>, <<0, 0, 255>>}
Widths == {2}

\* The confidence values of the clades that have one.
Confidences == {90}

\* The trees: every shape of up to MaxNodes clades without attributes, every
\* shape of up to MaxLenNodes clades with every choice of branch lengths, and
\* every shape of up to MaxAttrNodes clades with every choice of colours, of
\* widths or of confidence values.
Trees ==
    {MkTree(Len(p), p, NoAttr(Len(p)), NoAttr(Len(p)), NoAttr(Len(p))) :
        p \in UNION {Shapes(n) : n \in 1..MaxNodes}}
    \cup UNION {{MkTree(Len(p), p, l, NoAttr(Len(p)), NoAttr(Len(p))) :
                    l \in Lengths(Len(p))} :
                p \in UNION {Shapes(n) : n \in 1..MaxLenNodes}}
    \cup UNION {{MkTree(Len(p), p, NoAttr(Len(p)), col, NoAttr(Len(p))) :
                    col \in [1..Len(p) -> Option(Colors)]} :
                p \in UNION {Shapes(n) : n \in 1..MaxAttrNodes}}
    \cup UNION {{MkTree(Len(p), p, NoAttr(Len(p)), NoAttr(Len(p)), w) :
                    w \in [1..Len(p) -> Option(Widths)]} :
                p \in UNION {Shapes(n) : n \in 1..MaxAttrNodes}}
    \cup UNION {{[MkTree(Len(p), p, NoAttr(Len(p)), NoAttr(Len(p)), NoAttr(Len(p)))
                     EXCEPT !.confidence = cf] :
                    cf \in [1..Len(p) -> Option(Confidences)]} :
                p \in UNION {Shapes(n) : n \in 1..MaxAttrNodes}}

\* draw's arguments as its signature sets them. A keyword option is
\* "tuple", "tuple_dict" or "dict", or "not_iterable".
DefaultArgs ==
    [label_func |-> [kind |-> "str", labels |-> <<>>],
     do_show |-> TRUE, show_confidence |-> TRUE,
     axes |-> "None",
     branch_labels |-> [kind |-> "None", truthy |-> FALSE, labels |-> <<>>],
     label_colors |-> None, orient_tree |-> "vertical",
     horizontal_direction |-> "down", vertical_direction |-> "right",
     draw_labels |-> TRUE, align_labels |-> FALSE, kwargs |-> <<>>]

Orientations == {"vertical", "horizontal", "circular", "diagonal"}

KwargsGiven == {<<"tuple">>, <<"not_iterable">>, <<"dict", "not_iterable">>,
                <<"tuple_dict", "dict">>}

\* A tree whose clades have no branch length, colour, width or confidence.
Plain(t) ==
    /\ t.branch_length = NoAttr(t.n)
    /\ t.color = NoAttr(t.n)
    /\ t.width = NoAttr(t.n)
    /\ t.confidence = NoAttr(t.n)

\* The text of a branch label given through branch_labels.
BranchLabel == <<"b">>

\* The branch_labels given: a value that is false (0, "", [], {}), a value
\* that is true and neither a dict nor callable (1, "b", [1]), a dict with a
\* label for some clades, and a function that gives every clade a label, or
\* every clade "".
BranchLabelsGiven(t) ==
    {[kind |-> k, truthy |-> FALSE, labels |-> <<>>] :
        k \in {"int", "str", "list", "dict"}}
    \cup {[kind |-> k, truthy |-> TRUE, labels |-> <<>>] :
            k \in {"int", "str", "list"}}
    \cup {[kind |-> "dict", truthy |-> TRUE, labels |-> l] :
            l \in [Clades(t) -> Option({BranchLabel})] \ {NoAttr(t.n)}}
    \cup {[kind |-> "callable", truthy |-> TRUE,
           labels |-> [c \in Clades(t) |-> Some(s)]] : s \in {BranchLabel, <<>>}}

\* The text a label_func that is given makes.
Label == <<"L">>

\* The label_func given: a function that gives each clade a label or None.
LabelFuncsGiven(t) ==
    {[kind |-> "function", labels |-> l] : l \in [Clades(t) -> Option({Label})]}

\* The calls of draw on a tree: every orientation; on a tree of up to
\* MaxAttrNodes clades also each other argument changed from its default,
\* the one that matters to a tree with confidence values being
\* show_confidence; and on such a tree without attributes also each
\* branch_labels and each label_func.
DrawCalls(t) ==
    {[DefaultArgs EXCEPT !.orient_tree = o] : o \in Orientations}
    \cup IF t.n > MaxAttrNodes THEN {}
         ELSE IF t.confidence # NoAttr(t.n)
         THEN {[DefaultArgs EXCEPT !.orient_tree = o, !.show_confidence = FALSE] :
                  o \in Orientations \ {"diagonal"}}
         ELSE {[DefaultArgs EXCEPT !.orient_tree = o, !.kwargs = k] :
                  o \in Orientations \ {"diagonal"}, k \in KwargsGiven}
              \cup {[DefaultArgs EXCEPT !.orient_tree = o, !.align_labels = TRUE] :
                      o \in Orientations \ {"diagonal"}}
              \cup {[DefaultArgs EXCEPT !.orient_tree = o, !.draw_labels = FALSE] :
                      o \in Orientations \ {"diagonal"}}
              \cup {[DefaultArgs EXCEPT !.orient_tree = o, !.axes = x] :
                      o \in Orientations \ {"diagonal"},
                      x \in {"Axes", "polar", "other"}}
              \cup {[DefaultArgs EXCEPT !.vertical_direction = d] :
                      d \in {"left", "up"}}
              \cup {[DefaultArgs EXCEPT !.orient_tree = "horizontal",
                                        !.horizontal_direction = d] :
                      d \in {"up", "left"}}
              \cup {[DefaultArgs EXCEPT !.do_show = FALSE]}
              \cup IF ~Plain(t) THEN {}
                   ELSE {[DefaultArgs EXCEPT !.orient_tree = o,
                                             !.branch_labels = b] :
                            o \in Orientations \ {"diagonal"},
                            b \in BranchLabelsGiven(t)}
                        \cup {[DefaultArgs EXCEPT !.orient_tree = o,
                                                  !.label_func = f] :
                                 o \in Orientations \ {"diagonal"},
                                 f \in LabelFuncsGiven(t)}

ColumnWidths == (MaxColumnWidth - 3)..MaxColumnWidth

NoAxes == [figure |-> FALSE, drawn |-> FALSE, texts |-> <<>>, plots |-> <<>>,
           collections |-> <<>>, labelled |-> FALSE, limits |-> FALSE,
           title |-> None, pyplot_calls |-> <<>>, shown |-> FALSE]

NoAscii == [called |-> FALSE, column_width |-> 0, drawing_width |-> 0,
            drawing_height |-> 0, depths |-> <<>>, col_positions |-> <<>>,
            row_positions |-> <<>>, raised |-> "", at |-> "", file |-> <<>>]

\* The exception a call ended with, and the step that raised it.
NoRaise == [exc |-> "", at |-> ""]
Raised(exc, at) == [exc |-> exc, at |-> IF exc = "" THEN "" ELSE at]

Init ==
    /\ tree0 \in Trees
    /\ tree = tree0
    /\ pc = "idle"
    /\ args = DefaultArgs
    /\ x_posns = <<>>
    /\ y_posns = <<>>
    /\ axes = NoAxes
    /\ raised = NoRaise
    /\ ascii = NoAscii
    /\ graph = NoGraph

\* draw is called.
DrawCall ==
    /\ pc = "idle"
    /\ \E a \in DrawCalls(tree) : args' = a
    /\ pc' = "validate"
    /\ UNCHANGED <<graph, tree0, tree, x_posns, y_posns, axes, raised, ascii>>

validate_NoOrientation(a) ==
    IF a.orient_tree = "vertical"
       /\ a.vertical_direction \notin {"right", "left"}
    THEN "ValueError"
    ELSE IF a.orient_tree = "horizontal"
            /\ a.horizontal_direction \notin {"up", "down"}
    THEN "ValueError"
    ELSE ""

\* Lines 287-292: the orientation and the direction are checked.
validate(a) ==
    IF a.orient_tree \notin {"horizontal", "vertical", "circular"}
    THEN "ValueError"
    ELSE IF a.orient_tree = "vertical"
            /\ a.vertical_direction \notin {"right", "left"}
    THEN "ValueError"
    ELSE IF a.orient_tree = "horizontal"
            /\ a.horizontal_direction \notin {"up", "down"}
    THEN "ValueError"
    ELSE ""

Validate ==
    /\ pc = "validate"
    /\ raised' = Raised(validate(args), "validate")
    /\ pc' = IF validate(args) # "" THEN "raised" ELSE "branch_labels"
    /\ UNCHANGED <<graph, tree0, tree, args, x_posns, y_posns, axes, ascii>>

\* Lines 304-334: format_branch_label is chosen; branch_labels that is
\* neither false, a dict nor callable raises TypeError.
branch_labels_check(a) ==
    IF ~a.branch_labels.truthy THEN ""
    ELSE IF a.branch_labels.kind = "dict" THEN ""
    ELSE IF a.branch_labels.kind # "callable" THEN "TypeError"
    ELSE ""

BranchLabels ==
    /\ pc = "branch_labels"
    /\ raised' = Raised(branch_labels_check(args), "branch_labels")
    /\ pc' = IF branch_labels_check(args) # "" THEN "raised" ELSE "layout"
    /\ UNCHANGED <<graph, tree0, tree, args, x_posns, y_posns, axes, ascii>>

\* Lines 393-394: the layout.
Layout ==
    /\ pc = "layout"
    /\ x_posns' = get_x_positions(tree)
    /\ y_posns' = get_y_positions(tree).value
    /\ raised' = Raised(get_y_positions(tree).raised, "get_y_positions")
    /\ pc' = IF get_y_positions(tree).raised # "" THEN "raised" ELSE "axes"
    /\ UNCHANGED <<graph, tree0, tree, args, axes, ascii>>

\* Lines 396-408: a figure is made when no axes are given; given axes must
\* be polar for a circular tree and Axes otherwise. The axes given are
\* "Axes", "polar" (Axes whose name is "polar") or "other", an object that is
\* no Axes and has no name.
axes_check(a) ==
    IF a.axes = "None" THEN ""
    ELSE IF a.orient_tree = "circular"
    THEN IF a.axes = "other" THEN "AttributeError"
         ELSE IF a.axes # "polar" THEN "ValueError" ELSE ""
    ELSE IF a.axes \notin {"Axes", "polar"} THEN "ValueError"
    ELSE ""

Axes ==
    /\ pc = "axes"
    /\ axes' = [axes EXCEPT !.figure = (args.axes = "None")]
    /\ raised' = Raised(axes_check(args), "axes")
    /\ pc' = IF axes_check(args) # "" THEN "raised" ELSE "draw"
    /\ UNCHANGED <<graph, tree0, tree, args, x_posns, y_posns, ascii>>

\* Lines 704-761: the tree is drawn, and the title set.
DrawTree ==
    /\ pc = "draw"
    /\ LET d == draw_tree(args, tree, x_posns, y_posns)
       IN  /\ axes' = [axes EXCEPT !.drawn = TRUE, !.texts = d.texts,
                                   !.plots = d.plots,
                                   !.collections = d.collections,
                                   !.labelled = d.labelled,
                                   !.limits = d.limits,
                                   !.title = IF d.raised = "" THEN tree.tree_name
                                             ELSE None]
           /\ raised' = Raised(d.raised, "draw_clade")
           /\ pc' = IF d.raised # "" THEN "raised" ELSE "kwargs"
    /\ UNCHANGED <<graph, tree0, tree, args, x_posns, y_posns, ascii>>

\* Lines 765-780: the next keyword option is checked to be iterable, and
\* then handed to pyplot.
Kwarg ==
    /\ pc = "kwargs"
    /\ Len(axes.pyplot_calls) < Len(args.kwargs)
    /\ LET value == args.kwargs[Len(axes.pyplot_calls) + 1]
       IN  IF value = "not_iterable"
           THEN /\ raised' = Raised("ValueError", "kwargs")
                /\ pc' = "raised"
                /\ axes' = axes
           ELSE /\ axes' = [axes EXCEPT !.pyplot_calls = Append(@, value)]
                /\ UNCHANGED <<raised, pc>>
    /\ UNCHANGED <<graph, tree0, tree, args, x_posns, y_posns, ascii>>

\* Lines 782-783: the plot is shown, and draw returns.
Show ==
    /\ pc = "kwargs"
    /\ Len(axes.pyplot_calls) = Len(args.kwargs)
    /\ axes' = [axes EXCEPT !.shown = args.do_show]
    /\ pc' = "done"
    /\ UNCHANGED <<graph, tree0, tree, args, x_posns, y_posns, raised, ascii>>

\* draw_ascii is called, and returns or raises.
DrawAscii ==
    /\ pc = "idle"
    /\ \E column_width \in ColumnWidths : ascii' = draw_ascii(tree, column_width)
    /\ pc' = IF ascii'.raised # "" THEN "raised" ELSE "done"
    /\ raised' = Raised(ascii'.raised, ascii'.at)
    /\ UNCHANGED <<graph, tree0, tree, args, x_posns, y_posns, axes>>

\* The calls of to_networkx: on a tree that is rooted or not with networkx
\* 1.0, and on a rooted tree with each other version and without networkx.
NetworkxCalls ==
    {<<rooted, "1.0">> : rooted \in BOOLEAN}
    \cup {<<TRUE, version>> : version \in Range(Versions) \cup {""}}

\* to_networkx is called on the tree, rooted or not, and returns the graph,
\* or raises when networkx cannot be imported.
ToNetworkx ==
    /\ pc = "idle"
    /\ \E call \in NetworkxCalls :
          LET rooted == call[1]
              version == call[2]
          IN  IF version = ""
              THEN /\ raised' = Raised("MissingPythonDependencyError",
                                       "to_networkx")
                   /\ pc' = "raised"
                   /\ UNCHANGED <<graph, tree>>
              ELSE /\ graph' = to_networkx(tree, rooted, version).graph
                   /\ tree' = to_networkx(tree, rooted, version).tree
                   /\ pc' = "done"
                   /\ raised' = raised
    /\ UNCHANGED <<tree0, args, x_posns, y_posns, axes, ascii>>

Next ==
    \/ DrawCall
    \/ Validate
    \/ BranchLabels
    \/ Layout
    \/ Axes
    \/ DrawTree
    \/ Kwarg
    \/ Show
    \/ DrawAscii
    \/ ToNetworkx

Spec == Init /\ [][Next]_vars

(***************************************************************************)
(* The claims.                                                             *)
(***************************************************************************)
\* draw has computed its layout.
LayoutDone == y_posns # <<>>

\* draw has drawn the tree and returned.
DrawDone == pc = "done" /\ axes.drawn

Taxa == get_terminals(tree)
Internal == {c \in Clades(tree) : ~is_terminal(tree, c)}

\* The number of branches between a clade and the root.
EdgeCount(c) == Cardinality(Path(tree, c)) - 1

\* C1: in draw's height layout, every internal clade's height is exactly
\* (height of its first child + height of its last child) / 2.
C1_Midpoint ==
    LayoutDone =>
        \A c \in Internal :
            2 * y_posns[c] =
                y_posns[first_child(tree, c)] + y_posns[last_child(tree, c)]

\* A laid out clade whose midpoint is not the mean of its children's heights.
C1_Witness ==
    /\ LayoutDone
    /\ \E c \in Internal :
        /\ Len(clades(tree, c)) >= 3
        /\ Len(clades(tree, c)) * 2 * y_posns[c]
               # 2 * SumOver(y_posns, clades(tree, c))

\* C2: both height layouts map every clade of any tree to a position, and
\* consecutive terminals differ by exactly 1 in get_y_positions and by
\* exactly 2 in get_row_positions.
C2_EveryCladeEvenlySpaced ==
    /\ LayoutDone =>
        /\ DOMAIN y_posns = Clades(tree)
        /\ \A k \in 1..(Len(Taxa) - 1) :
              y_posns[Taxa[k + 1]] - y_posns[Taxa[k]] = HScale
    /\ ascii.called =>
        /\ DOMAIN ascii.row_positions = Clades(tree)
        /\ \A k \in 1..(Len(Taxa) - 1) :
              ascii.row_positions[Taxa[k + 1]] - ascii.row_positions[Taxa[k]] = 2

C4_DepthMonotone ==
    LayoutDone =>
        /\ x_posns[root(tree)] = 0
        /\ \A c \in Clades(tree) \ {root(tree)} :
              x_posns[c] >= x_posns[tree.parent[c]]

\* A layout by branch lengths in which one clade is deeper than its parent
\* and another, under a branch of length 0, is as deep as its parent.
C4_Witness ==
    /\ LayoutDone
    /\ x_posns = depths(tree, FALSE)
    /\ \E c \in Clades(tree) \ {root(tree)} : x_posns[c] > x_posns[tree.parent[c]]
    /\ \E c \in Clades(tree) \ {root(tree)} :
          tree.branch_length[c] = Some(0) /\ x_posns[c] = x_posns[tree.parent[c]]

\* The depths by branch lengths: each clade's branch lengths summed along its
\* path from the root, an absent length counting 0.
RECURSIVE LengthSum(_)
LengthSum(S) ==
    IF S = {} THEN 0
    ELSE LET c == CHOOSE c \in S : TRUE
         IN  (IF tree.branch_length[c] = None THEN 0 ELSE tree.branch_length[c][1])
             + LengthSum(S \ {c})

LengthDepth(c) == LengthSum(Path(tree, c) \ {root(tree)})

FallsBack(d) ==
    IF \A c \in Clades(tree) : LengthDepth(c) = 0
    THEN \A c \in Clades(tree) : d[c] = EdgeCount(c)
    ELSE \A c \in Clades(tree) : d[c] = LengthDepth(c)

\* C5: in draw and in draw_ascii, when the greatest depth by branch lengths
\* is 0 every clade's depth is the number of branches between it and the
\* root, and otherwise every clade's depth is its depth by branch lengths.
C5_UnitDepthFallback ==
    /\ LayoutDone => FallsBack(x_posns)
    /\ ascii.called => FallsBack(ascii.depths)

\* draw_ascii has fallen back to unit depths on a tree with a branch of
\* length 0 and a clade two branches from the root.
C5_Witness ==
    /\ ascii.called
    /\ \E c \in Clades(tree) : tree.branch_length[c] = Some(0)
    /\ \E c \in Clades(tree) : EdgeCount(c) = 2 /\ ascii.depths[c] = 2

IsSuffix(suffix, line) ==
    /\ Len(suffix) <= Len(line)
    /\ SubSeq(line, Len(line) - Len(suffix) + 1, Len(line)) = suffix

DrawingChars == {" ", "_", "|", ","}

\* C6: what draw_ascii writes for a tree of N terminals is 2 * N - 1 lines of
\* drawing and an empty line; line 2 * i (from 0) ends with a space and the
\* label of terminal i, and no odd line has a label.
C6_Lines ==
    (ascii.called /\ ascii.raised = "") =>
        /\ Len(ascii.file) = 2 * Len(Taxa)
        /\ ascii.file[2 * Len(Taxa)] = <<>>
        /\ \A i \in 0..(Len(Taxa) - 1) :
              IsSuffix(<<" ">> \o str(tree, Taxa[i + 1]), ascii.file[2 * i + 1])
        /\ \A i \in 0..(Len(Taxa) - 2) :
              /\ Range(ascii.file[2 * i + 2]) \subseteq DrawingChars
              /\ ascii.file[2 * i + 2] = rstrip(ascii.file[2 * i + 2])

\* A rendering of a tree of three terminals or more.
C6_Witness == ascii.called /\ ascii.raised = "" /\ Len(Taxa) >= 3

\* C7: on the tree of one clade, neither draw's layout nor draw_ascii's
\* layout raises.
C7_OneNodeLayoutSucceeds ==
    tree.n = 1 =>
        /\ raised.at # "get_y_positions"
        /\ ascii.at \notin {"get_col_positions", "get_row_positions"}

\* The lines and texts drawn for a clade.
LinesOf(c) ==
    {axes.collections[k] : k \in {j \in DOMAIN axes.collections :
                                     axes.collections[j].clade = c}}
    \cup {axes.plots[k] : k \in {j \in DOMAIN axes.plots : axes.plots[j].clade = c}}

\* A child without a colour under a parent that has one, or without a width
\* under a parent that has one, in the tree as it was given to draw.
ColorHeirs ==
    {c \in Clades(tree0) \ {root(tree0)} :
        tree0.color[c] = None /\ tree0.color[tree0.parent[c]] # None}
WidthHeirs ==
    {c \in Clades(tree0) \ {root(tree0)} :
        tree0.width[c] = None /\ tree0.width[tree0.parent[c]] # None}

NothingDrawn ==
    /\ ~axes.drawn
    /\ axes.texts = <<>>
    /\ axes.collections = <<>>
    /\ axes.plots = <<>>

\* C9: called with an orient_tree that is none of 'horizontal', 'vertical'
\* and 'circular', draw gets no further than its check, which raises
\* ValueError: no figure is made, no layout computed and nothing drawn.
C9_BadOrientation ==
    (pc # "idle" /\ args.orient_tree \notin {"horizontal", "vertical", "circular"}) =>
        /\ pc \in {"validate", "raised"}
        /\ pc = "raised" => raised = Raised("ValueError", "validate")
        /\ ~axes.figure
        /\ x_posns = <<>>
        /\ y_posns = <<>>
        /\ NothingDrawn
        /\ axes.pyplot_calls = <<>>

\* draw has raised for orient_tree = "diagonal".
C9_Witness ==
    /\ pc = "raised"
    /\ args.orient_tree = "diagonal"
    /\ raised.exc = "ValueError"

\* C10 as claimed: when a keyword option that is not iterable raises, no
\* line, text or line collection has been added to the axes.
C10_RaisedBeforeDrawing == raised.at = "kwargs" => NothingDrawn

\* C10 as amended: when a keyword option that is not iterable raises
\* ValueError, the tree has been drawn: every clade has its line on the axes,
\* the options before it have been handed to pyplot, and only the options
\* after it and plt.show() have not run.
C10_RaisedAfterDrawing ==
    raised.at = "kwargs" =>
        /\ raised.exc = "ValueError"
        /\ axes.drawn
        /\ \A c \in Clades(tree) : LinesOf(c) # {}
        /\ Len(axes.pyplot_calls) < Len(args.kwargs)
        /\ args.kwargs[Len(axes.pyplot_calls) + 1] = "not_iterable"
        /\ \A k \in 1..Len(axes.pyplot_calls) :
              axes.pyplot_calls[k] = args.kwargs[k] /\ args.kwargs[k] # "not_iterable"
        /\ ~axes.shown

\* The second keyword option has raised, on a tree with a labelled tip.
C10_Witness ==
    /\ raised.at = "kwargs"
    /\ Len(axes.pyplot_calls) = 1
    /\ axes.texts # <<>>
    /\ tree.n >= 3

\* branch_labels is neither None, a dict nor callable.
InvalidBranchLabels == args.branch_labels.kind \notin {"None", "dict", "callable"}

\* C11: called with a branch_labels that is neither None, a dict nor
\* callable, the false values 0, "" and [] included, draw raises at its
\* choice of format_branch_label, before anything is drawn.
C11_InvalidBranchLabelsRaise ==
    (InvalidBranchLabels /\ pc \notin {"idle", "validate", "branch_labels"}
        /\ raised.at # "validate") =>
        /\ pc = "raised"
        /\ raised.at = "branch_labels"
        /\ NothingDrawn

\* The graph was built with the weight, the colour and the width on its edges.
Attributed ==
    /\ graph.built
    /\ \A e \in DOMAIN graph.edges : graph.edges[e].weight # None

\* C12: the graph to_networkx returns (networkx 1.0 and later) has one node
\* per clade and one edge per pair of a parent and its child, and the edge's
\* weight is the child's branch length when it has one, 0 included, and 1.0
\* only when it has none.
C12_GraphOfTree ==
    Attributed =>
        /\ graph.nodes = Clades(tree0)
        /\ DOMAIN graph.edges =
              {<<tree0.parent[c], c>> : c \in Clades(tree0) \ {root(tree0)}}
        /\ \A c \in Clades(tree0) \ {root(tree0)} :
              graph.edges[<<tree0.parent[c], c>>].weight =
                  IF tree0.branch_length[c] = None THEN Some(1)
                  ELSE tree0.branch_length[c]

\* The texts on the axes that label a clade.
LabelTexts(c) ==
    {k \in DOMAIN axes.texts :
        axes.texts[k].clade = c /\ axes.texts[k].kind = "label"}

\* C13: in vertical, horizontal and circular orientation, draw puts no label
\* on the axes for a clade for which label_func returns None, whether the
\* clade has a name or not.
C13_NoneIsNoLabel ==
    axes.drawn =>
        \A c \in Clades(tree) :
            label_func(args, tree, c) = None => LabelTexts(c) = {}

\* draw_ascii has computed the columns and the rows of the clades.
AsciiLaidOut == ascii.called /\ ascii.row_positions # <<>>

\* The column draw_clade starts a clade's line at.
StartCol(c) ==
    IF c = root(tree) THEN 0 ELSE ascii.col_positions[tree.parent[c]] + 1

\* The cells draw_clade writes for a clade, each <<row, column>>: its line of
\* "_", and for a clade with children the "|" over their rows and the ","
\* of a short first branch.
CellsOf(c) ==
    LET col == ascii.col_positions
        row == ascii.row_positions
    IN  {<<row[c], k>> : k \in StartCol(c)..(col[c] - 1)}
        \cup IF is_terminal(tree, c) THEN {}
             ELSE {<<r, col[c]>> :
                      r \in (row[first_child(tree, c)] + 1)..row[last_child(tree, c)]}
                  \cup IF col[first_child(tree, c)] - col[c] < 2
                       THEN {<<row[first_child(tree, c)], col[c]>>}
                       ELSE {}

\* C14: for a tree with a branch and a drawing_width of 2 or more, every cell
\* draw_ascii's draw_clade writes is in rows 0 to 2 * N - 2 and columns 0 to
\* drawing_width - 1, and the rendering ends without an exception.
C14_WritesInGrid ==
    (ascii.called /\ tree.n >= 2 /\ ascii.drawing_width >= 2) =>
        /\ ascii.raised = ""
        /\ \A c \in Clades(tree) : \A cell \in CellsOf(c) :
              /\ cell[1] \in 0..(2 * Len(Taxa) - 2)
              /\ cell[2] \in 0..(ascii.drawing_width - 1)

\* C15: in draw_ascii's row layout every clade with children is at the row
\* (row of its first child + row of its last child) divided by 2 and cut down
\* to an integer, the rows of its children being final by then, so its row is
\* from its first child's row to its last child's row, where its "|" runs.
C15_RowMidpoint ==
    AsciiLaidOut =>
        \A c \in Internal :
            LET row == ascii.row_positions
                a == row[first_child(tree, c)]
                b == row[last_child(tree, c)]
            IN  /\ 2 * row[c] <= a + b
                /\ a + b < 2 * row[c] + 2
                /\ a <= row[c]
                /\ row[c] <= b

\* Rows laid out for a tree in which the rows of a clade's first and last
\* child add up to an odd number, and a clade has three children or more.
C15_Witness ==
    /\ AsciiLaidOut
    /\ \E c \in Internal :
          (ascii.row_positions[first_child(tree, c)]
              + ascii.row_positions[last_child(tree, c)]) % 2 = 1
    /\ \E c \in Internal : Len(clades(tree, c)) >= 3

\* The terminals that have a branch label: a confidence value, or a label
\* from branch_labels.
LabelledTips ==
    {c \in Clades(tree) :
        is_terminal(tree, c) /\ Truthy(format_branch_label(args, tree, c))}

\* The texts on the axes that are a clade's branch label.
BranchLabelTexts(c) ==
    {k \in DOMAIN axes.texts :
        /\ axes.texts[k].clade = c
        /\ axes.texts[k].kind = "branch_label"
        /\ Some(axes.texts[k].s) = format_branch_label(args, tree, c)}

\* C16: in horizontal orientation with draw_labels, drawing a tree that has
\* a terminal with a branch label raises nothing, and puts the label of every
\* such terminal on the axes, as vertical orientation does.
C16_TipBranchLabelDrawn ==
    (axes.drawn /\ args.draw_labels
        /\ args.orient_tree \in {"horizontal", "vertical"}) =>
        /\ raised.at # "draw_clade"
        /\ \A c \in LabelledTips : BranchLabelTexts(c) # {}

====
